---- MODULE Spec2Model ----
(***************************************************************************)
(* Model of the GhostGate Python SDK (src/public/sdk/ghostgate.py).        *)
(*                                                                         *)
(* A client constructs a GhostGate, binds a guard (cost, service, method)  *)
(* around a handler and calls the resulting wrapper.  Every wrapper call   *)
(* is synchronous: it signs an access payload, sends one request to the    *)
(* gate, runs the handler when the gate answers 2xx and posts an outcome   *)
(* report.  The answers of the network and the behaviour of the handler    *)
(* are inputs of the call.                                                 *)
(***************************************************************************)
EXTENDS Integers, Sequences, FiniteSets, TLC

VARIABLES environ, ctorArgs, self, initOutcome, guardArgs, bound, guardOutcome,
          last, ever

vars == <<environ, ctorArgs, self, initOutcome, guardArgs, bound, guardOutcome,
          last, ever>>

(***************************************************************************)
(* Bounds of the model and constants of the program.                       *)
(***************************************************************************)
MaxCost == 2

DEFAULT_CHAIN_ID == 8453

PAYMENT_REQUIRED_STATUS == 402

OK_STATUS_LOW == 200

OK_STATUS_HIGH == 300

SERVER_ERROR_STATUS == 500

(***************************************************************************)
(* Python values.  None and strings share one representation so that a     *)
(* key may be None, empty or a string.                                     *)
(***************************************************************************)
None == "None"

Truthy(x) == x # None /\ x # ""

\* Python's `a or b`: the first operand when it is truthy, else the second.
PyOr(a, b) == IF Truthy(a) THEN a ELSE b

\* A scalar Python value: t is its type, n its numeric payload (True is 1).
NoneVal == [t |-> "none", n |-> 0]

IntVal(i) == [t |-> "int", n |-> i]

BoolVal(b) == [t |-> "bool", n |-> IF b THEN 1 ELSE 0]

StrVal(i) == [t |-> "str", n |-> i]

\* isinstance(v, int): bool is a subclass of int in Python.
IsInt(v) == v.t \in {"int", "bool"}

(***************************************************************************)
(* Handler results.  shape "str" is a plain string, "obj" an object with a *)
(* status_code attribute, "tuple" a tuple, "namedtuple" a tuple that also  *)
(* has a status_code attribute.                                            *)
(***************************************************************************)
PlainStr(s) == [shape |-> "str", text |-> s, status_code |-> NoneVal, items |-> <<>>]

Obj(code) == [shape |-> "obj", text |-> "", status_code |-> code, items |-> <<>>]

Tuple(items) == [shape |-> "tuple", text |-> "", status_code |-> NoneVal, items |-> items]

NamedTuple(code, items) == [shape |-> "namedtuple", text |-> "", status_code |-> code, items |-> items]

HasStatusCodeAttr(result) == result.shape \in {"obj", "namedtuple"}

IsTuple(result) == result.shape \in {"tuple", "namedtuple"}

Body == StrVal(7)

Results ==
  { PlainStr("ok"), PlainStr("Payment Required"),
    Obj(IntVal(404)), Obj(IntVal(499)), Obj(IntVal(500)), Obj(IntVal(503)),
    Obj(StrVal(503)), Obj(BoolVal(TRUE)),
    Tuple(<<Body>>), Tuple(<<Body, IntVal(404)>>), Tuple(<<Body, IntVal(503)>>),
    Tuple(<<Body, StrVal(503)>>),
    NamedTuple(StrVal(1), <<StrVal(1), IntVal(503)>>) }

(***************************************************************************)
(* Inputs of the operations.                                               *)
(***************************************************************************)
ApiKeys == {"", "api-key"}

KeyArgs == {None, "0xbad"}

SignerEnvValues == {None, "", "0xB"}

PrivateKeyEnvValues == {None, "0xC"}

\* Keys the signing library accepts; any other string makes signing raise.
ValidKeys == {"0xB", "0xC"}

ChainIds == {DEFAULT_CHAIN_ID}

Costs == (0 - MaxCost) .. MaxCost

Services == {"", "weather"}

Methods == {"post"}

CallArgs == {"args1", "args2"}

AgentIds == {None, "agent-1"}

\* What the HTTP library does with one request: it raises exc, or it
\* returns a response with status_code.
Response(code) == [exc |-> "none", status_code |-> code]

Raises(e) == [exc |-> e, status_code |-> 0]

NoNet == [exc |-> "unsent", status_code |-> 0]

TransportErrors == {Raises("ConnectionError"), Raises("Timeout")}

GateAnswers == {Response(c) : c \in {199, 200, 299, 300, 402, 500}} \cup TransportErrors

PostAnswers == {Response(c) : c \in {299, 300}} \cup TransportErrors

\* What the handler does when invoked: it raises, or it returns result.
Returns(r) == [raises |-> FALSE, result |-> r]

HandlerRaises == [raises |-> TRUE, result |-> PlainStr("")]

NoFunc == [raises |-> FALSE, result |-> PlainStr("")]

HandlerBehaviours == {Returns(r) : r \in Results} \cup {HandlerRaises}

(***************************************************************************)
(* GhostGate.__init__                                                      *)
(***************************************************************************)
NoSelf == [api_key |-> None, chain_id |-> 0, private_key |-> None]

NoCtorArgs == [api_key |-> None, private_key |-> None, chain_id |-> 0]

\* private_key or os.getenv("GHOST_SIGNER_PRIVATE_KEY") or os.getenv("PRIVATE_KEY")
resolve_private_key(private_key, env) ==
  PyOr(PyOr(private_key, env.GHOST_SIGNER_PRIVATE_KEY), env.PRIVATE_KEY)

\* The object and the outcome of GhostGate(api_key, private_key=.., chain_id=..).
GhostGate_init_unchecked_key(api_key, private_key, chain_id, env) ==
  IF ~Truthy(api_key)
    THEN [raised |-> "ValueError", self |-> NoSelf]
    ELSE [raised |-> "none",
          self |-> [api_key |-> api_key, chain_id |-> chain_id,
                    private_key |-> resolve_private_key(private_key, env)]]

GhostGate_init(api_key, private_key, chain_id, env) ==
  IF ~Truthy(api_key)
    THEN [raised |-> "ValueError", self |-> NoSelf]
    ELSE LET key == resolve_private_key(private_key, env)
         IN IF ~Truthy(key)
              THEN [raised |-> "ValueError", self |-> NoSelf]
              ELSE [raised |-> "none",
                    self |-> [api_key |-> api_key, chain_id |-> chain_id,
                              private_key |-> key]]

(***************************************************************************)
(* GhostGate.guard: the checks made at decoration time.                    *)
(***************************************************************************)
NoBound == [cost |-> 0, service |-> "", method |-> ""]

NoGuardArgs == [cost |-> 0, service |-> "", method |-> ""]

guard_accepts_zero(cost, service, method) ==
  IF cost < 0
    THEN [raised |-> "ValueError", bound |-> NoBound]
    ELSE IF ~Truthy(service)
      THEN [raised |-> "ValueError", bound |-> NoBound]
      ELSE [raised |-> "none",
            bound |-> [cost |-> cost, service |-> service, method |-> method]]

guard(cost, service, method) ==
  IF cost <= 0
    THEN [raised |-> "ValueError", bound |-> NoBound]
    ELSE IF ~Truthy(service)
      THEN [raised |-> "ValueError", bound |-> NoBound]
      ELSE [raised |-> "none",
            bound |-> [cost |-> cost, service |-> service, method |-> method]]

(***************************************************************************)
(* Signing and verification.                                               *)
(***************************************************************************)
\* The access payload; timestamp and nonce are fresh per call and play no
\* part in the decision, so only the service is kept.
_build_access_payload(service) == [service |-> service]

\* Account.sign_message raises on a key it cannot parse; otherwise the
\* signature is determined by the key, the chain id and the message.
_sign_access_payload(slf, payload) ==
  IF slf.private_key \in ValidKeys
    THEN [raised |-> "none",
          signature |-> [signer |-> slf.private_key, chainId |-> slf.chain_id,
                         message |-> payload]]
    ELSE [raised |-> "SigningError",
          signature |-> [signer |-> None, chainId |-> 0, message |-> payload]]

\* method.upper()
Upper(method) ==
  CASE method = "GET" -> "GET"
    [] method = "post" -> "POST"
    [] OTHER -> method

GateRequest(slf, service, cost, method, signature) ==
  [method |-> Upper(method), url |-> <<"GATE_URL", service>>,
   sig |-> signature, payload |-> _build_access_payload(service), cost |-> cost]

\* A variant that sends the request a second time when the first attempt
\* fails.
_verify_access_retrying(slf, service, cost, method, net) ==
  LET payload == _build_access_payload(service)
      signed == _sign_access_payload(slf, payload)
      req == GateRequest(slf, service, cost, method, signed.signature)
  IN IF signed.raised # "none"
       THEN [raised |-> signed.raised, ret |-> FALSE, sent |-> <<>>, self |-> slf]
       ELSE IF net.exc # "none"
         THEN [raised |-> "none", ret |-> FALSE, sent |-> <<req, req>>, self |-> slf]
         ELSE IF net.status_code = PAYMENT_REQUIRED_STATUS
           THEN [raised |-> "none", ret |-> FALSE, sent |-> <<req>>, self |-> slf]
           ELSE [raised |-> "none",
                 ret |-> (OK_STATUS_LOW <= net.status_code /\ net.status_code < OK_STATUS_HIGH),
                 sent |-> <<req>>, self |-> slf]

\* A variant that denies only on 402 and lets every other answer through.
_verify_access_only_402(slf, service, cost, method, net) ==
  LET payload == _build_access_payload(service)
      signed == _sign_access_payload(slf, payload)
      req == GateRequest(slf, service, cost, method, signed.signature)
  IN IF signed.raised # "none"
       THEN [raised |-> signed.raised, ret |-> FALSE, sent |-> <<>>, self |-> slf]
       ELSE IF net.exc # "none"
         THEN [raised |-> "none", ret |-> FALSE, sent |-> <<req>>, self |-> slf]
         ELSE [raised |-> "none",
               ret |-> (net.status_code # PAYMENT_REQUIRED_STATUS),
               sent |-> <<req>>, self |-> slf]

\* A variant without the try/except around the request.
_verify_access_uncaught(slf, service, cost, method, net) ==
  LET payload == _build_access_payload(service)
      signed == _sign_access_payload(slf, payload)
      req == GateRequest(slf, service, cost, method, signed.signature)
  IN IF signed.raised # "none"
       THEN [raised |-> signed.raised, ret |-> FALSE, sent |-> <<>>, self |-> slf]
       ELSE IF net.exc # "none"
         THEN [raised |-> net.exc, ret |-> FALSE, sent |-> <<req>>, self |-> slf]
         ELSE IF net.status_code = PAYMENT_REQUIRED_STATUS
           THEN [raised |-> "none", ret |-> FALSE, sent |-> <<req>>, self |-> slf]
           ELSE [raised |-> "none",
                 ret |-> (OK_STATUS_LOW <= net.status_code /\ net.status_code < OK_STATUS_HIGH),
                 sent |-> <<req>>, self |-> slf]

\* A variant that drops the signing key once the gate has denied.
_verify_access_forgets_key(slf, service, cost, method, net) ==
  LET payload == _build_access_payload(service)
      signed == _sign_access_payload(slf, payload)
      req == GateRequest(slf, service, cost, method, signed.signature)
      forgot == [slf EXCEPT !.private_key = None]
  IN IF signed.raised # "none"
       THEN [raised |-> signed.raised, ret |-> FALSE, sent |-> <<>>, self |-> slf]
       ELSE IF net.exc # "none"
         THEN [raised |-> "none", ret |-> FALSE, sent |-> <<req>>, self |-> forgot]
         ELSE IF net.status_code = PAYMENT_REQUIRED_STATUS
           THEN [raised |-> "none", ret |-> FALSE, sent |-> <<req>>, self |-> forgot]
           ELSE [raised |-> "none",
                 ret |-> (OK_STATUS_LOW <= net.status_code /\ net.status_code < OK_STATUS_HIGH),
                 sent |-> <<req>>, self |-> slf]

\* net is what requests.request does with the one request that is sent.
_verify_access(slf, service, cost, method, net) ==
  LET payload == _build_access_payload(service)
      signed == _sign_access_payload(slf, payload)
      req == GateRequest(slf, service, cost, method, signed.signature)
  IN IF signed.raised # "none"
       THEN [raised |-> signed.raised, ret |-> FALSE, sent |-> <<>>, self |-> slf]
       ELSE IF net.exc # "none"
         THEN [raised |-> "none", ret |-> FALSE, sent |-> <<req>>, self |-> slf]
         ELSE IF net.status_code = PAYMENT_REQUIRED_STATUS
           THEN [raised |-> "none", ret |-> FALSE, sent |-> <<req>>, self |-> slf]
           ELSE [raised |-> "none",
                 ret |-> (OK_STATUS_LOW <= net.status_code /\ net.status_code < OK_STATUS_HIGH),
                 sent |-> <<req>>, self |-> slf]

(***************************************************************************)
(* Telemetry.                                                              *)
(***************************************************************************)
\* A variant without the try/except around the POST.
_post_optional_uncaught(url, payload, answer) ==
  IF answer.exc # "none"
    THEN [raised |-> answer.exc, ret |-> FALSE, sent |-> <<[url |-> url, json |-> payload]>>]
    ELSE [raised |-> "none",
          ret |-> (OK_STATUS_LOW <= answer.status_code /\ answer.status_code < OK_STATUS_HIGH),
          sent |-> <<[url |-> url, json |-> payload]>>]

\* answer is what requests.post does with the one POST that is sent.
_post_optional(url, payload, answer) ==
  IF answer.exc # "none"
    THEN [raised |-> "none", ret |-> FALSE, sent |-> <<[url |-> url, json |-> payload]>>]
    ELSE [raised |-> "none",
          ret |-> (OK_STATUS_LOW <= answer.status_code /\ answer.status_code < OK_STATUS_HIGH),
          sent |-> <<[url |-> url, json |-> payload]>>]

\* Both telemetry payloads as one record shape; a pulse has no success and
\* no statusCode.
Payload(apiKey, success, statusCode, agentId) ==
  [apiKey |-> apiKey, success |-> success, statusCode |-> statusCode, agentId |-> agentId]

send_pulse(slf, agent_id, answer) ==
  LET p == _post_optional("PULSE_URL", Payload(slf.api_key, "absent", NoneVal, agent_id), answer)
  IN [raised |-> p.raised, ret |-> p.ret, sent |-> p.sent, self |-> slf]

\* bool(success) of a Python bool.
PyBool(b) == IF b THEN "true" ELSE "false"

report_consumer_outcome(slf, success, status_code, agent_id, answer) ==
  LET p == _post_optional("OUTCOME_URL",
                          Payload(slf.api_key, PyBool(success), status_code, agent_id), answer)
  IN [raised |-> p.raised, ret |-> p.ret, sent |-> p.sent, self |-> slf]

\* A variant that only looks at the status_code attribute.
_extract_status_code_attr_only(result) ==
  IF HasStatusCodeAttr(result) /\ IsInt(result.status_code)
    THEN result.status_code
    ELSE NoneVal

_extract_status_code(result) ==
  IF HasStatusCodeAttr(result) /\ IsInt(result.status_code)
    THEN result.status_code
    ELSE IF IsTuple(result) /\ Len(result.items) >= 2 /\ IsInt(result.items[2])
      THEN result.items[2]
      ELSE NoneVal

(***************************************************************************)
(* GhostGate.guard.decorator.wrapper: one call of the guarded handler.     *)
(* b is the (cost, service, method) the guard bound, args the caller's     *)
(* arguments, net the gate's answer, func the handler's behaviour and post *)
(* the telemetry endpoint's answer.  trace lists the external events of    *)
(* the call in the order the code produces them.                           *)
(***************************************************************************)
Sentinel == PlainStr("Payment Required")

NoResult == PlainStr("")

Events(name, sent) == [i \in 1 .. Len(sent) |-> name]

\* The call's record when nothing but the verification has happened.
AfterVerify(v) ==
  [outcome |-> "raised", exc |-> v.raised, retval |-> NoResult,
   verified |-> IF v.raised # "none" THEN "raised" ELSE IF v.ret THEN "True" ELSE "False",
   trace |-> Events("verify", v.sent), gate |-> v.sent,
   handlerArgs |-> <<>>, telemetry |-> <<>>, postRet |-> "none", self |-> v.self]

\* A variant that catches the handler's exception and reports a failure.
wrapper_reports_exception(slf, b, args, net, func, post) ==
  LET v == _verify_access(slf, b.service, b.cost, b.method, net)
      denied == AfterVerify(v)
  IN IF v.raised # "none"
       THEN denied
       ELSE IF ~v.ret
         THEN [denied EXCEPT !.outcome = "returned", !.exc = "none", !.retval = Sentinel]
         ELSE LET invoked == [denied EXCEPT !.trace = @ \o <<"handler">>,
                                            !.handlerArgs = <<args>>]
                  result == func.result
                  status_code == IF func.raises THEN IntVal(SERVER_ERROR_STATUS)
                                 ELSE _extract_status_code(result)
                  success == status_code = NoneVal \/ status_code.n < SERVER_ERROR_STATUS
                  rep == report_consumer_outcome(v.self, success, status_code, None, post)
                  reported == [invoked EXCEPT !.trace = @ \o Events("outcome", rep.sent),
                                              !.telemetry = rep.sent,
                                              !.self = rep.self]
              IN IF func.raises
                   THEN [reported EXCEPT !.exc = "HandlerError",
                                         !.postRet = IF rep.ret THEN "True" ELSE "False"]
                   ELSE [reported EXCEPT !.outcome = "returned", !.exc = "none",
                                         !.retval = result,
                                         !.postRet = IF rep.ret THEN "True" ELSE "False"]

\* A variant that returns the telemetry call's value instead of the result.
wrapper_returns_report(slf, b, args, net, func, post) ==
  LET v == _verify_access(slf, b.service, b.cost, b.method, net)
      denied == AfterVerify(v)
  IN IF v.raised # "none"
       THEN denied
       ELSE IF ~v.ret
         THEN [denied EXCEPT !.outcome = "returned", !.exc = "none", !.retval = Sentinel]
         ELSE LET invoked == [denied EXCEPT !.trace = @ \o <<"handler">>,
                                            !.handlerArgs = <<args>>]
              IN IF func.raises
                   THEN [invoked EXCEPT !.exc = "HandlerError"]
                   ELSE LET result == func.result
                            status_code == _extract_status_code(result)
                            success == status_code = NoneVal
                                       \/ status_code.n < SERVER_ERROR_STATUS
                            rep == report_consumer_outcome(v.self, success, status_code,
                                                           None, post)
                            reported == [invoked EXCEPT
                                           !.trace = @ \o Events("outcome", rep.sent),
                                           !.telemetry = rep.sent,
                                           !.self = rep.self]
                        IN [reported EXCEPT
                              !.outcome = "returned", !.exc = "none",
                              !.retval = PlainStr(IF rep.ret THEN "True" ELSE "False"),
                              !.postRet = IF rep.ret THEN "True" ELSE "False"]

wrapper(slf, b, args, net, func, post) ==
  LET v == _verify_access(slf, b.service, b.cost, b.method, net)
      denied == AfterVerify(v)
  IN IF v.raised # "none"
       THEN denied
       ELSE IF ~v.ret
         THEN [denied EXCEPT !.outcome = "returned", !.exc = "none", !.retval = Sentinel]
         ELSE LET invoked == [denied EXCEPT !.trace = @ \o <<"handler">>,
                                            !.handlerArgs = <<args>>]
              IN IF func.raises
                   THEN [invoked EXCEPT !.exc = "HandlerError"]
                   ELSE LET result == func.result
                            status_code == _extract_status_code(result)
                            success == status_code = NoneVal
                                       \/ status_code.n < SERVER_ERROR_STATUS
                            rep == report_consumer_outcome(v.self, success, status_code,
                                                           None, post)
                            reported == [invoked EXCEPT
                                           !.trace = @ \o Events("outcome", rep.sent),
                                           !.telemetry = rep.sent,
                                           !.self = rep.self]
                        IN IF rep.raised # "none"
                             THEN [reported EXCEPT !.exc = rep.raised]
                             ELSE [reported EXCEPT
                                     !.outcome = "returned", !.exc = "none",
                                     !.retval = result,
                                     !.postRet = IF rep.ret THEN "True" ELSE "False"]

(***************************************************************************)
(* The state machine.                                                      *)
(***************************************************************************)
\* The record of the last completed operation.  An input the operation did
\* not consume is recorded as unsent / not invoked.
NoLast ==
  [op |-> "none", args |-> "", net |-> NoNet, func |-> NoFunc, post |-> NoNet,
   outcome |-> "none", exc |-> "none", retval |-> NoResult, verified |-> "none",
   trace |-> <<>>, gate |-> <<>>, handlerArgs |-> <<>>, telemetry |-> <<>>,
   postRet |-> "none"]

Range(seq) == {seq[i] : i \in 1 .. Len(seq)}

Init ==
  /\ environ \in [GHOST_SIGNER_PRIVATE_KEY : SignerEnvValues,
                  PRIVATE_KEY : PrivateKeyEnvValues]
  /\ ctorArgs = NoCtorArgs
  /\ self = NoSelf
  /\ initOutcome = "none"
  /\ guardArgs = NoGuardArgs
  /\ bound = NoBound
  /\ guardOutcome = "none"
  /\ last = NoLast
  /\ ever = {}

\* gate = GhostGate(api_key, private_key=private_key, chain_id=chain_id)
Construct ==
  /\ initOutcome = "none"
  /\ \E api_key \in ApiKeys, private_key \in KeyArgs, chain_id \in ChainIds :
       LET r == GhostGate_init(api_key, private_key, chain_id, environ)
       IN /\ ctorArgs' = [api_key |-> api_key, private_key |-> private_key,
                          chain_id |-> chain_id]
          /\ self' = r.self
          /\ initOutcome' = IF r.raised = "none" THEN "constructed" ELSE r.raised
  /\ UNCHANGED <<environ, guardArgs, bound, guardOutcome, last, ever>>

\* guarded = gate.guard(cost, service=service, method=method)(handler)
Guard ==
  /\ initOutcome = "constructed"
  /\ guardOutcome = "none"
  /\ \E cost \in Costs, service \in Services, method \in Methods :
       LET r == guard(cost, service, method)
       IN /\ guardArgs' = [cost |-> cost, service |-> service, method |-> method]
          /\ bound' = r.bound
          /\ guardOutcome' = IF r.raised = "none" THEN "decorated" ELSE r.raised
  /\ UNCHANGED <<environ, ctorArgs, self, initOutcome, last, ever>>

\* guarded(*args).  An answer is drawn only for a request the call sends and
\* a behaviour only for a handler the call invokes.
Call ==
  /\ guardOutcome = "decorated"
  /\ \E args \in CallArgs, net \in GateAnswers \cup {NoNet},
        func \in HandlerBehaviours \cup {NoFunc}, post \in PostAnswers \cup {NoNet} :
       \E r \in {wrapper(self, bound, args, net, func, post)} :
          /\ net \in GateAnswers <=> "verify" \in Range(r.trace)
          /\ func \in HandlerBehaviours <=> "handler" \in Range(r.trace)
          /\ post \in PostAnswers <=> "outcome" \in Range(r.trace)
          /\ last' = [op |-> "call", args |-> args, net |-> net, func |-> func,
                      post |-> post,
                      outcome |-> r.outcome, exc |-> r.exc, retval |-> r.retval,
                      verified |-> r.verified, trace |-> r.trace, gate |-> r.gate,
                      handlerArgs |-> r.handlerArgs, telemetry |-> r.telemetry,
                      postRet |-> r.postRet]
          /\ self' = r.self
          /\ ever' = ever \cup (Range(r.trace) \cap {"verify", "handler"})
  /\ UNCHANGED <<environ, ctorArgs, initOutcome, guardArgs, bound, guardOutcome>>

\* gate.send_pulse(agent_id)
Pulse ==
  /\ initOutcome = "constructed"
  /\ \E agent_id \in AgentIds, post \in PostAnswers :
       LET r == send_pulse(self, agent_id, post)
       IN /\ last' = [NoLast EXCEPT !.op = "pulse", !.post = post,
                        !.outcome = IF r.raised = "none" THEN "returned" ELSE "raised",
                        !.exc = r.raised,
                        !.trace = Events("pulse", r.sent), !.telemetry = r.sent,
                        !.postRet = IF r.ret THEN "True" ELSE "False"]
          /\ self' = r.self
  /\ UNCHANGED <<ever, environ, ctorArgs, initOutcome, guardArgs, bound, guardOutcome>>

\* gate.report_consumer_outcome(success=.., status_code=.., agent_id=..)
Report ==
  /\ initOutcome = "constructed"
  /\ \E success \in BOOLEAN, status_code \in {NoneVal, IntVal(SERVER_ERROR_STATUS)},
        agent_id \in AgentIds, post \in PostAnswers :
       LET r == report_consumer_outcome(self, success, status_code, agent_id, post)
       IN /\ last' = [NoLast EXCEPT !.op = "report", !.post = post,
                        !.outcome = IF r.raised = "none" THEN "returned" ELSE "raised",
                        !.exc = r.raised,
                        !.trace = Events("outcome", r.sent), !.telemetry = r.sent,
                        !.postRet = IF r.ret THEN "True" ELSE "False"]
          /\ self' = r.self
  /\ UNCHANGED <<ever, environ, ctorArgs, initOutcome, guardArgs, bound, guardOutcome>>

Next == Construct \/ Guard \/ Call \/ Pulse \/ Report

Spec == Init /\ [][Next]_vars

TypeOK ==
  /\ initOutcome \in {"none", "constructed", "ValueError"}
  /\ guardOutcome \in {"none", "decorated", "ValueError"}
  /\ last.op \in {"none", "call", "pulse", "report"}
  /\ ever \subseteq {"verify", "handler"}

(***************************************************************************)
(* Properties.                                                             *)
(***************************************************************************)
Count(seq, e) == Cardinality({i \in 1 .. Len(seq) : seq[i] = e})

IsCall == last.op = "call"

\* The gate answered the last call with a response whose code is 2xx.
Answered2xx == IsCall /\ last.net.exc = "none" /\ last.net.status_code \in 200 .. 299

\* The gate answered the last call with a response whose code is not 2xx.
AnsweredNon2xx == IsCall /\ last.net.exc = "none" /\ last.net.status_code \notin 200 .. 299

HandlerReturned == IsCall /\ Count(last.trace, "handler") = 1 /\ ~last.func.raises

\* C1: when the verification request of a guarded call returns a 2xx status,
\* the handler is invoked exactly once, with the caller's arguments, and the
\* value the handler returns is the value the wrapper returns.
C1_AllowedRunsHandlerOnce ==
  Answered2xx =>
    /\ Count(last.trace, "handler") = 1
    /\ last.handlerArgs = <<last.args>>
    /\ (~last.func.raises => last.outcome = "returned" /\ last.retval = last.func.result)

C1_Witness ==
  /\ Answered2xx
  /\ last.net.status_code = 299
  /\ last.args = "args2"
  /\ last.func = Returns(Tuple(<<Body, IntVal(503)>>))
  /\ last.retval = Tuple(<<Body, IntVal(503)>>)
  /\ last.handlerArgs = <<"args2">>

\* C2: when the verification request returns a status outside 200..299 (402
\* or any other code), _verify_access returns False, the wrapper returns
\* "Payment Required" and the handler is not invoked.
C2_Non2xxDenies ==
  AnsweredNon2xx =>
    /\ last.verified = "False"
    /\ last.outcome = "returned"
    /\ last.retval = Sentinel
    /\ Count(last.trace, "handler") = 0
    /\ last.handlerArgs = <<>>

C2_Witness ==
  /\ AnsweredNon2xx
  /\ last.net.status_code = 500
  /\ last.retval = Sentinel
  /\ last.trace = <<"verify">>

\* What the caller of a guarded call can observe of it.
Observable(r) ==
  [outcome |-> r.outcome, exc |-> r.exc, retval |-> r.retval,
   handlerArgs |-> r.handlerArgs, telemetry |-> r.telemetry]

\* C3: when the verification request raises a transport error, no exception
\* reaches the caller, the wrapper returns "Payment Required", the handler is
\* not invoked and no outcome report is sent: the same observable outcome as
\* for a 402 answer.
C3_TransportErrorDeniesLike402 ==
  (IsCall /\ last.net \in TransportErrors) =>
    /\ last.outcome = "returned"
    /\ last.exc = "none"
    /\ last.retval = Sentinel
    /\ Count(last.trace, "handler") = 0
    /\ last.telemetry = <<>>
    /\ Observable(last) =
         Observable(wrapper(self, bound, last.args, Response(402), NoFunc, NoNet))

C3_Witness ==
  /\ IsCall
  /\ last.net = Raises("Timeout")
  /\ last.retval = Sentinel
  /\ last.gate # <<>>

\* No signing key: the argument and both environment variables are None or
\* empty.
NoCredential ==
  /\ ctorArgs.private_key \in {None, ""}
  /\ environ.GHOST_SIGNER_PRIVATE_KEY \in {None, ""}
  /\ environ.PRIVATE_KEY \in {None, ""}

\* C4 as stated: when credential resolution yields nothing, the guard still
\* exists and answers a call with "Payment Required", without invoking the
\* handler and without sending a request.
C4_Original ==
  (initOutcome # "none" /\ Truthy(ctorArgs.api_key) /\ NoCredential) =>
    /\ initOutcome = "constructed"
    /\ (IsCall => last.retval = Sentinel /\ last.handlerArgs = <<>> /\ last.gate = <<>>)

\* C4 amended: when credential resolution yields nothing, construction raises
\* ValueError, so no guard and no wrapper exist, no handler is ever invoked
\* and no request is ever sent to the verification endpoint.
C4_NoKeyRaisesAtConstruction ==
  (initOutcome # "none" /\ NoCredential) =>
    /\ initOutcome = "ValueError"
    /\ self = NoSelf
    /\ guardOutcome = "none"
    /\ last.op = "none"
    /\ ever = {}

C4_Witness ==
  /\ initOutcome = "ValueError"
  /\ Truthy(ctorArgs.api_key)
  /\ NoCredential
  /\ environ.GHOST_SIGNER_PRIVATE_KEY = ""

\* The status code the claim reads off a result.
ClaimedStatus(r) ==
  CASE r.shape \in {"obj", "namedtuple"} /\ r.status_code.t \in {"int", "bool"}
         -> r.status_code
    [] OTHER ->
         IF r.shape \in {"tuple", "namedtuple"} /\ Len(r.items) >= 2
            /\ r.items[2].t \in {"int", "bool"}
           THEN r.items[2]
           ELSE NoneVal

\* C5: after an allowed call whose handler returns r, one outcome report is
\* sent; its statusCode is the integer status_code attribute of r if present,
\* else the integer second element of a tuple of length >= 2, else null, and
\* its success is true exactly when statusCode is null or below 500 (404:
\* true, 503: false, plain result: true with a null statusCode).
C5_OutcomeReportClassifies ==
  HandlerReturned =>
    /\ Len(last.telemetry) = 1
    /\ LET sent == last.telemetry[1]
           code == ClaimedStatus(last.func.result)
       IN /\ sent.url = "OUTCOME_URL"
          /\ sent.json.apiKey = self.api_key
          /\ sent.json.statusCode = code
          /\ sent.json.success \in {"true", "false"}
          /\ sent.json.success = "true" <=> (code = NoneVal \/ code.n < 500)
          /\ (code = IntVal(404) => sent.json.success = "true")
          /\ (code = IntVal(503) => sent.json.success = "false")
          /\ (last.func.result = PlainStr("ok") =>
                sent.json.success = "true" /\ sent.json.statusCode = NoneVal)

C5_Witness ==
  /\ HandlerReturned
  /\ last.func.result = Tuple(<<Body, IntVal(503)>>)
  /\ Len(last.telemetry) = 1
  /\ last.telemetry[1].json.success = "false"
  /\ last.telemetry[1].json.statusCode = IntVal(503)

\* The telemetry POST of the last call failed: a transport error or a
\* response that is not 2xx.
PostFailed ==
  \/ last.post \in TransportErrors
  \/ last.post.exc = "none" /\ last.post.status_code \notin 200 .. 299

\* C6: whatever the telemetry POST of an allowed call does (network error,
\* timeout, non-2xx response), _post_optional returns False without raising,
\* no exception reaches the caller and the wrapper returns the handler's
\* result.
C6_TelemetryFailureIsSilent ==
  (HandlerReturned /\ PostFailed) =>
    /\ last.postRet = "False"
    /\ last.outcome = "returned"
    /\ last.exc = "none"
    /\ last.retval = last.func.result

C6_Witness ==
  /\ HandlerReturned
  /\ last.post = Raises("ConnectionError")
  /\ last.postRet = "False"
  /\ last.retval = Obj(IntVal(404))

\* C7: guard with a cost <= 0 raises ValueError at decoration time: nothing
\* is bound, no verification request is sent and no handler runs; guard with
\* a cost > 0 and a non-empty service returns a decorator.
C7_NonPositiveCostRejected ==
  guardOutcome # "none" =>
    /\ (guardArgs.cost <= 0 =>
          /\ guardOutcome = "ValueError"
          /\ bound = NoBound
          /\ last.op # "call"
          /\ ever = {})
    /\ (guardArgs.cost > 0 /\ guardArgs.service # "" =>
          guardOutcome = "decorated" /\ bound = guardArgs)

C7_Witness ==
  /\ guardOutcome = "ValueError"
  /\ guardArgs.cost = 0
  /\ guardArgs.service = "weather"
  /\ last.op = "pulse"

\* C8: a guarded call sends at most one verification request and at most one
\* outcome report, in the order verification, handler, outcome report; the
\* report is sent only after the handler has returned, never on a denied
\* call.
C8_NoRetriesFixedOrder ==
  IsCall =>
    /\ Len(last.gate) <= 1
    /\ Len(last.telemetry) <= 1
    /\ last.trace \in {<<>>, <<"verify">>, <<"verify", "handler">>,
                       <<"verify", "handler", "outcome">>}
    /\ ("outcome" \in Range(last.trace) => ~last.func.raises)
    /\ (last.verified # "True" => last.trace \in {<<>>, <<"verify">>})

C8_Witness ==
  /\ IsCall
  /\ last.trace = <<"verify", "handler", "outcome">>
  /\ last.post = Raises("Timeout")
  /\ Len(last.gate) = 1

\* C9: once set by construction and decoration, api_key, private_key,
\* chain_id and the bound cost, service and method are changed by no guarded
\* call, send_pulse or report_consumer_outcome; a guarded call that gets a
\* verification answer invokes the handler exactly when that answer is 2xx,
\* whatever happened in earlier calls.
C9_ConfigurationIsFrozen ==
  /\ [][/\ initOutcome = "constructed" => self' = self
        /\ guardOutcome = "decorated" => bound' = bound /\ guardArgs' = guardArgs]_vars
  /\ []((IsCall /\ last.net # NoNet) =>
          ("handler" \in Range(last.trace) <=> Answered2xx))

C9_Witness ==
  /\ IsCall
  /\ last.verified = "False"
  /\ last.net = Response(402)
  /\ "handler" \in ever
  /\ self.private_key \in ValidKeys
  /\ bound = guardArgs
  /\ bound.cost = MaxCost

\* C10: when the handler of an allowed call raises, the exception reaches the
\* caller and no outcome report is sent; an outcome report is sent exactly
\* when the handler returned.
C10_HandlerExceptionPropagates ==
  IsCall =>
    /\ (("handler" \in Range(last.trace) /\ last.func.raises) =>
          /\ last.outcome = "raised"
          /\ last.exc = "HandlerError"
          /\ last.telemetry = <<>>
          /\ "outcome" \notin Range(last.trace))
    /\ ("outcome" \in Range(last.trace) <=>
          ("handler" \in Range(last.trace) /\ ~last.func.raises))

C10_Witness ==
  /\ IsCall
  /\ last.func = HandlerRaises
  /\ last.trace = <<"verify", "handler">>
  /\ last.outcome = "raised"
  /\ last.exc = "HandlerError"

====
